---- MODULE Spec2Model ----
(***************************************************************************)
(* Resource wrappers of moderngl: Buffer (moderngl/buffer.py) and          *)
(* TextureArray (moderngl/texture_array.py), their release / teardown      *)
(* protocol against the owning Context's gc_mode, and the calls they       *)
(* forward to the driver handle (the mglo object of the mgl extension).    *)
(***************************************************************************)
EXTENDS Integers, Sequences, FiniteSets, TLC

\* ---------------------------------------------------------------- bounds
NumWrappers == 2    \* wrapper objects ever allocated
NumHandles == 2     \* driver objects ever created
BufSize == 3        \* bytes in a buffer
HostSize == 3       \* bytes in the host bytearray handed to read_into
MaxByte == 1        \* byte values are 0..MaxByte
MaxChunk == 2       \* chunk_size, step and count are 0..MaxChunk
MaxAttribs == 2     \* attribute names passed to bind

Wrappers == 1..NumWrappers
Handles == 1..NumHandles
Byte == 0..MaxByte

\* A slot of __slots__ that was never assigned (reading it raises AttributeError).
Absent == -1
\* The value None that __init__ stores in every slot before it raises.
None == 0

Kinds == {"Buffer", "TextureArray"}
GcModes == {"auto", "context_gc", "manual"}

VARIABLES
    wst,          \* wrapper -> "free" | "partial" | "live" | "dead"
    wkind,        \* wrapper -> its class, type(self)
    wmglo,        \* wrapper -> self.mglo: Absent, None or a handle
    wctx,         \* wrapper -> self.ctx: "absent", "None" or "ctx" (the Context)
    wcache,       \* wrapper -> the slots _size, _components, _dtype
    htype,        \* handle -> type of the mglo object: "free", a kind, or "InvalidObject"
    bufdata,      \* handle -> the bytes of a buffer object (<<>> for other handles)
    host,         \* the bytes of the application's bytearray
    gc_mode,      \* ctx.gc_mode
    objects,      \* ctx.objects, the deferred-release queue
    released,     \* wrappers on which release() has been called
    releaseCalls, \* handle -> number of times the driver's release ran on it
    drv,          \* the driver calls issued by the last operation, in order
    last,         \* the last operation: [op, err, ret, ...]
    wmode         \* wrapper -> ctx.gc_mode when it was created, where noted

vars == <<wst, wkind, wmglo, wctx, wcache, htype, bufdata, host, gc_mode, objects,
          released, releaseCalls, drv, last, wmode>>

\* The same with the operation first: a step to another operation differs
\* from a stuttering step in its first component.
opvars == <<last.op, vars>>

\* The content of storage the driver allocated and nobody wrote yet.
Undef == -1

\* The metadata slots of a wrapper: never assigned, as __init__ leaves them,
\* and as the Context fills them at creation (a Buffer's _size is the
\* number of bytes reserved).
NoSlots == [size |-> <<>>, components |-> Absent, dtype |-> "absent"]

InitSlots(k) ==
    [size |-> IF k = "Buffer" THEN None ELSE <<None, None, None>>,
     components |-> None, dtype |-> "None"]

TexGeometry == [size |-> <<2, 2, 1>>, components |-> 1, dtype |-> "f1"]

CreatedSlots(k) ==
    IF k = "Buffer" THEN [size |-> BufSize, components |-> Absent, dtype |-> "absent"]
    ELSE TexGeometry

\* ------------------------------------------------------- outcome records
\* What one method call does: the exception it raises ("none" when it
\* returns), the value it returns (bytes; <<>> stands for None as well), the
\* driver calls it makes, the handles the driver destroys, the handles it
\* appends to the context's queue, the stores the driver performs (each
\* [dst, off, d] puts the bytes d at offset off of dst, which is host memory
\* or a buffer object) and the storage it allocates anew (each [h, size]
\* gives buffer object h size unwritten bytes).
Returned ==
    [err |-> "none", ret |-> <<>>, calls |-> <<>>, rel |-> {}, app |-> <<>>,
     stores |-> <<>>, realloc |-> <<>>]

Raised(e) == [Returned EXCEPT !.err = e]

\* ------------------------------------------------------------ byte ranges
\* A bytearray of HostSize zero bytes, bytearray(HostSize).
ZeroHost == [i \in 1..HostSize |-> 0]

Slice(s, off, n) == [i \in 1..n |-> s[off + i]]

Overlay(s, off, d) ==
    [i \in 1..Len(s) |-> IF off < i /\ i <= off + Len(d) THEN d[i - off] ELSE s[i]]

\* The count chunks of chunk_size bytes at start, start + step, ..., joined.
Chunks(s, chunk_size, start, step, count) ==
    [j \in 1..(count * chunk_size) |->
        s[start + ((j - 1) \div chunk_size) * step + ((j - 1) % chunk_size) + 1]]

ChunksFit(n, chunk_size, start, step, count) ==
    /\ chunk_size >= 0 /\ count >= 0
    /\ \A i \in 0..(count - 1) :
          start + i * step >= 0 /\ start + i * step + chunk_size <= n

\* ------------------------------------------- the driver's buffer object
\* size = -1 means the bytes from offset to the end
SizeArg(h, size, offset) == IF size = -1 THEN Len(bufdata[h]) - offset ELSE size

RangeOk(h, size, offset) ==
    offset >= 0 /\ size >= 0 /\ offset + size <= Len(bufdata[h])

\* Where the driver delivers bytes d at write_offset: host memory or the
\* storage of another buffer object; anything else is no destination.
Deliver(target, wo, d) ==
    IF target.t = "host"
    THEN IF wo >= 0 /\ wo + Len(d) <= HostSize
         THEN [Returned EXCEPT !.stores = <<[dst |-> target, off |-> wo, d |-> d]>>]
         ELSE Raised("Error")
    ELSE IF target.t = "mglo"
    THEN IF htype[target.h] = "Buffer" /\ wo >= 0
            /\ wo + Len(d) <= Len(bufdata[target.h])
         THEN [Returned EXCEPT !.stores = <<[dst |-> target, off |-> wo, d |-> d]>>]
         ELSE Raised("Error")
    ELSE Raised("TypeError")

MglBuffer_write(h, args) ==
    IF Len(args) # 2 THEN Raised("TypeError")
    ELSE IF args[1].t # "bytes" THEN Raised("TypeError")
    ELSE IF RangeOk(h, Len(args[1].v), args[2])
    THEN [Returned EXCEPT
            !.stores = <<[dst |-> [t |-> "mglo", h |-> h], off |-> args[2],
                          d |-> args[1].v]>>]
    ELSE Raised("Error")

\* The stores of the count pieces of d, piece i at start + i*step.
ChunkStores(h, d, start, step, count) ==
    [i \in 1..count |->
        [dst |-> [t |-> "mglo", h |-> h], off |-> start + (i - 1) * step,
         d |-> Slice(d, (i - 1) * (Len(d) \div count), Len(d) \div count)]]

MglBuffer_write_chunks(h, args) ==
    IF Len(args) # 4 THEN Raised("TypeError")
    ELSE IF args[1].t # "bytes" THEN Raised("TypeError")
    ELSE IF args[4] <= 0 THEN Raised("Error")
    ELSE IF Len(args[1].v) % args[4] # 0 THEN Raised("Error")
    ELSE IF ChunksFit(Len(bufdata[h]), Len(args[1].v) \div args[4], args[2], args[3],
                      args[4])
    THEN [Returned EXCEPT
            !.stores = ChunkStores(h, args[1].v, args[2], args[3], args[4])]
    ELSE Raised("Error")

\* size(): the bytes currently allocated
MglBuffer_size(h, args) ==
    IF Len(args) # 0 THEN Raised("TypeError")
    ELSE [Returned EXCEPT !.ret = Len(bufdata[h])]

\* orphan(size): a fresh allocation of size bytes, of the current size for -1
MglBuffer_orphan(h, args) ==
    IF Len(args) # 1 THEN Raised("TypeError")
    ELSE IF args[1] < -1 THEN Raised("Error")
    ELSE [Returned EXCEPT
            !.realloc = <<[h |-> h,
                           size |-> IF args[1] = -1 THEN Len(bufdata[h]) ELSE args[1]]>>]

MglBuffer_read(h, args) ==
    IF Len(args) # 2 THEN Raised("TypeError")
    ELSE LET size == SizeArg(h, args[1], args[2]) IN
         IF RangeOk(h, size, args[2])
         THEN [Returned EXCEPT !.ret = Slice(bufdata[h], args[2], size)]
         ELSE Raised("Error")

MglBuffer_read_into(h, args) ==
    IF Len(args) # 4 THEN Raised("TypeError")
    ELSE LET size == SizeArg(h, args[2], args[3]) IN
         IF RangeOk(h, size, args[3])
         THEN Deliver(args[1], args[4], Slice(bufdata[h], args[3], size))
         ELSE Raised("Error")

MglBuffer_read_chunks(h, args) ==
    IF Len(args) # 4 THEN Raised("TypeError")
    ELSE IF ChunksFit(Len(bufdata[h]), args[1], args[2], args[3], args[4])
    THEN [Returned EXCEPT !.ret = Chunks(bufdata[h], args[1], args[2], args[3], args[4])]
    ELSE Raised("Error")

MglBuffer_read_chunks_into(h, args) ==
    IF Len(args) # 6 THEN Raised("TypeError")
    ELSE IF ChunksFit(Len(bufdata[h]), args[2], args[3], args[4], args[5])
    THEN Deliver(args[1], args[6], Chunks(bufdata[h], args[2], args[3], args[4], args[5]))
    ELSE Raised("Error")

\* Methods whose effect on the GPU is not part of this model: the driver
\* checks the number of arguments and returns.
MglArity(args, n) == IF Len(args) = n THEN Returned ELSE Raised("TypeError")

MglBuffer(h, method, args) ==
    CASE method = "write" -> MglBuffer_write(h, args)
      [] method = "read" -> MglBuffer_read(h, args)
      [] method = "read_into" -> MglBuffer_read_into(h, args)
      [] method = "read_chunks" -> MglBuffer_read_chunks(h, args)
      [] method = "read_chunks_into" -> MglBuffer_read_chunks_into(h, args)
      [] method = "write_chunks" -> MglBuffer_write_chunks(h, args)
      [] method = "size" -> MglBuffer_size(h, args)
      [] method = "clear" -> MglArity(args, 3)
      [] method = "bind_to_uniform_block" -> MglArity(args, 3)
      [] method = "bind_to_storage_buffer" -> MglArity(args, 3)
      [] method = "orphan" -> MglBuffer_orphan(h, args)
      [] OTHER -> Raised("AttributeError")

\* ------------------------------------------ the driver's texture object
MglTextureArray(h, method, args) ==
    CASE method = "read" -> MglArity(args, 1)
      [] method = "read_into" -> MglArity(args, 3)
      [] method = "write" -> MglArity(args, 3)
      [] method = "build_mipmaps" -> MglArity(args, 2)
      [] method = "use" -> MglArity(args, 1)
      [] method = "bind" -> MglArity(args, 5)
      [] method = "__setattr__" -> MglArity(args, 2)
      [] OTHER -> Raised("AttributeError")

\* isinstance(m, InvalidObject)
IsInvalidObject(m) == m \in Handles /\ htype[m] = "InvalidObject"

\* m.method(*args) on whatever the mglo slot holds.  None has no such
\* attribute and neither has an InvalidObject; a driver object runs its
\* primitive.
Forward(m, method, args) ==
    IF m \in Handles /\ htype[m] \in Kinds
    THEN [(IF htype[m] = "Buffer" THEN MglBuffer(m, method, args)
           ELSE MglTextureArray(m, method, args))
          EXCEPT !.calls = <<[h |-> m, method |-> method, args |-> args]>>]
    ELSE Raised("AttributeError")

\* m.release(): a driver object is destroyed and its type becomes InvalidObject.
MgloRelease(m) ==
    IF m \in Handles /\ htype[m] \in Kinds
    THEN [Returned EXCEPT
            !.calls = <<[h |-> m, method |-> "release", args |-> <<>>]>>,
            !.rel = {m}]
    ELSE Raised("AttributeError")

\* ------------------------------------------------- values passed as arguments
HostMemory == [t |-> "host"]            \* the application's bytearray
Bytes(v) == [t |-> "bytes", v |-> v]    \* an immutable bytes object
WrapperArg(w) == [t |-> "wrapper", w |-> w]
NoneArg == [t |-> "None"]               \* None passed where a tuple may be
Tuple(v) == [t |-> "tuple", v |-> v]
MgloOf(w) == [t |-> "mglo", h |-> wmglo[w]]

\* if type(x) is Buffer: x = x.mglo
UnwrapBuffer(x) ==
    IF x.t = "wrapper" /\ wkind[x.w] = "Buffer" THEN MgloOf(x.w) ELSE x

\* ------------------------------------------------------- Buffer methods
\* write that drops the offset
Buffer_write_no_offset(w, data, offset) == Forward(wmglo[w], "write", <<data, 0>>)

Buffer_write(w, data, offset) == Forward(wmglo[w], "write", <<data, offset>>)

\* write_chunks with start and step exchanged
Buffer_write_chunks_swapped(w, data, start, step, count) ==
    Forward(wmglo[w], "write_chunks", <<data, step, start, count>>)

Buffer_write_chunks(w, data, start, step, count) ==
    Forward(wmglo[w], "write_chunks", <<data, start, step, count>>)

Buffer_read(w, size, offset) == Forward(wmglo[w], "read", <<size, offset>>)

\* read_into that hands the driver the mglo of a Buffer argument, as
\* TextureArray.read_into does
Buffer_read_into_unwrapping(w, buffer, size, offset, write_offset) ==
    Forward(wmglo[w], "read_into", <<UnwrapBuffer(buffer), size, offset, write_offset>>)

Buffer_read_into(w, buffer, size, offset, write_offset) ==
    Forward(wmglo[w], "read_into", <<buffer, size, offset, write_offset>>)

Buffer_read_chunks(w, chunk_size, start, step, count) ==
    Forward(wmglo[w], "read_chunks", <<chunk_size, start, step, count>>)

Buffer_read_chunks_into(w, buffer, chunk_size, start, step, count, write_offset) ==
    Forward(wmglo[w], "read", <<buffer, chunk_size, start, step, count, write_offset>>)

Buffer_clear(w, size, offset, chunk) ==
    Forward(wmglo[w], "clear", <<size, offset, chunk>>)

Buffer_bind_to_uniform_block(w, binding, offset, size) ==
    Forward(wmglo[w], "bind_to_uniform_block", <<binding, offset, size>>)

Buffer_bind_to_storage_buffer(w, binding, offset, size) ==
    Forward(wmglo[w], "bind_to_storage_buffer", <<binding, offset, size>>)

Buffer_orphan(w, size) == Forward(wmglo[w], "orphan", <<size>>)

\* The values a layout and an attribute name may take here; None is the
\* default layout.
Layouts == {"None", "2f"}
Str(s) == [t |-> "str", v |-> s]
Attribs == {Str("in_vert"), Str("in_color")}

\* bind that attaches the buffer to a block binding point on the way
Buffer_bind_binding(w, attribs, layout) ==
    [Buffer_bind_to_uniform_block(w, 0, 0, -1)
     EXCEPT !.ret = <<WrapperArg(w), layout>> \o attribs]

\* return (self, layout, *attribs): the attributes follow as further elements
Buffer_bind(w, attribs, layout) ==
    [Returned EXCEPT !.ret = <<WrapperArg(w), layout>> \o attribs]

Buffer_assign(w, index) == [Returned EXCEPT !.ret = <<WrapperArg(w), index>>]

\* size that answers from the _size slot filled at creation
Buffer_size_cached(w) == [Returned EXCEPT !.ret = wcache[w].size]

Buffer_size(w) == Forward(wmglo[w], "size", <<>>)

\* __hash__ that hashes the handle
Buffer_hash_of_handle(w) == wmglo[w]

\* id(self): wrappers are numbered by their place in memory
Buffer_hash(w) == w

\* release() without the isinstance guard
Buffer_release_unguarded(w) == MgloRelease(wmglo[w])

\* release() with the guard inverted
Buffer_release_inverted(w) ==
    IF IsInvalidObject(wmglo[w]) THEN MgloRelease(wmglo[w]) ELSE Returned

\* release() that never reaches the driver
Buffer_release_noop(w) == Returned

Buffer_release(w) ==
    IF ~IsInvalidObject(wmglo[w]) THEN MgloRelease(wmglo[w]) ELSE Returned

\* __del__ with the two gc modes exchanged
Buffer_del_swapped(w) ==
    IF wctx[w] = "absent" THEN Returned
    ELSE IF wctx[w] = "None" THEN Raised("AttributeError")
    ELSE IF gc_mode = "context_gc" THEN Buffer_release(w)
    ELSE IF gc_mode = "auto" THEN [Returned EXCEPT !.app = <<wmglo[w]>>]
    ELSE Returned

\* __del__ that queues the handle in every mode but "auto"
Buffer_del_else_queue(w) ==
    IF wctx[w] = "absent" THEN Returned
    ELSE IF wctx[w] = "None" THEN Raised("AttributeError")
    ELSE IF gc_mode = "auto" THEN Buffer_release(w)
    ELSE [Returned EXCEPT !.app = <<wmglo[w]>>]

\* __del__ that follows the gc mode in force when the wrapper was created
Buffer_del_creation_mode(w) ==
    IF wctx[w] = "absent" THEN Returned
    ELSE IF wctx[w] = "None" THEN Raised("AttributeError")
    ELSE IF wmode[w] = "auto" THEN Buffer_release(w)
    ELSE IF wmode[w] = "context_gc" THEN [Returned EXCEPT !.app = <<wmglo[w]>>]
    ELSE Returned

Buffer_del(w) ==
    IF wctx[w] = "absent" THEN Returned
    ELSE IF wctx[w] = "None" THEN Raised("AttributeError")
    ELSE IF gc_mode = "auto" THEN Buffer_release(w)
    ELSE IF gc_mode = "context_gc" THEN [Returned EXCEPT !.app = <<wmglo[w]>>]
    ELSE Returned

\* __eq__ that compares the classes only
Buffer_eq_class_only(a, b) == wkind[a] = wkind[b]

Buffer_eq(a, b) == wkind[a] = wkind[b] /\ wmglo[a] = wmglo[b]

\* ------------------------------------------------- TextureArray methods
TextureArray_read(w, alignment) == Forward(wmglo[w], "read", <<alignment>>)

TextureArray_read_into(w, buffer, alignment, write_offset) ==
    Forward(wmglo[w], "read_into", <<UnwrapBuffer(buffer), alignment, write_offset>>)

\* write that hands a Buffer argument to the driver as it is
TextureArray_write_forwarding(w, data, viewport, alignment) ==
    Forward(wmglo[w], "write", <<data, viewport, alignment>>)

TextureArray_write(w, data, viewport, alignment) ==
    Forward(wmglo[w], "write", <<UnwrapBuffer(data), viewport, alignment>>)

TextureArray_build_mipmaps(w, base, max_level) ==
    Forward(wmglo[w], "build_mipmaps", <<base, max_level>>)

TextureArray_use(w, location) == Forward(wmglo[w], "use", <<location>>)

TextureArray_bind_to_image(w, unit, read, write, level, format) ==
    Forward(wmglo[w], "bind", <<unit, read, write, level, format>>)

\* self.mglo.<name> = value, the setters of repeat_x, repeat_y, filter,
\* swizzle and anisotropy
TextureArray_set(w, name, value) == Forward(wmglo[w], "__setattr__", <<name, value>>)

\* width answered by the driver object, as Buffer.size is
TextureArray_width_of_handle(w) ==
    IF IsInvalidObject(wmglo[w]) THEN None ELSE wcache[w].size[1]

TextureArray_width(w) == wcache[w].size[1]

TextureArray_height(w) == wcache[w].size[2]

TextureArray_layers(w) == wcache[w].size[3]

TextureArray_size(w) == wcache[w].size

TextureArray_components(w) == wcache[w].components

TextureArray_dtype(w) == wcache[w].dtype

TextureArray_release(w) ==
    IF ~IsInvalidObject(wmglo[w]) THEN MgloRelease(wmglo[w]) ELSE Returned

TextureArray_del(w) ==
    IF wctx[w] = "absent" THEN Returned
    ELSE IF wctx[w] = "None" THEN Raised("AttributeError")
    ELSE IF gc_mode = "auto" THEN TextureArray_release(w)
    ELSE IF gc_mode = "context_gc" THEN [Returned EXCEPT !.app = <<wmglo[w]>>]
    ELSE Returned

TextureArray_eq(a, b) == wkind[a] = wkind[b] /\ wmglo[a] = wmglo[b]

TextureArray_hash(w) == w

\* ------------------------------------------------- dispatch on the class
Release_(w) ==
    IF wkind[w] = "Buffer" THEN Buffer_release(w) ELSE TextureArray_release(w)

Del_(w) == IF wkind[w] = "Buffer" THEN Buffer_del(w) ELSE TextureArray_del(w)

\* hash(w)
WrapperHash(w) ==
    IF wkind[w] = "Buffer" THEN Buffer_hash(w) ELSE TextureArray_hash(w)

\* a == b
WrapperEq(a, b) ==
    IF wkind[a] = "Buffer" THEN Buffer_eq(a, b) ELSE TextureArray_eq(a, b)

\* The data-moving and binding methods of each class.
BufferMethods ==
    {"write", "write_chunks", "read", "read_into", "read_chunks",
     "read_chunks_into", "clear", "bind_to_uniform_block",
     "bind_to_storage_buffer", "orphan"}

TextureArrayMethods ==
    {"read", "read_into", "write", "build_mipmaps", "use", "bind_to_image"}

Methods(k) == IF k = "Buffer" THEN BufferMethods ELSE TextureArrayMethods

\* The default value of build_mipmaps' max_level.
DefaultMaxLevel == 1000

\* w.m(...) with the keyword defaults of the signature and, for the
\* arguments that have none, an empty payload.
DefaultCall(w, m) ==
    IF wkind[w] = "Buffer"
    THEN CASE m = "write" -> Buffer_write(w, Bytes(<<>>), 0)
           [] m = "write_chunks" -> Buffer_write_chunks(w, Bytes(<<>>), 0, 1, 1)
           [] m = "read" -> Buffer_read(w, -1, 0)
           [] m = "read_into" -> Buffer_read_into(w, HostMemory, 0, 0, 0)
           [] m = "read_chunks" -> Buffer_read_chunks(w, 1, 0, 1, 1)
           [] m = "read_chunks_into" ->
                Buffer_read_chunks_into(w, HostMemory, 1, 0, 1, 1, 0)
           [] m = "clear" -> Buffer_clear(w, 0, 0, None)
           [] m = "bind_to_uniform_block" -> Buffer_bind_to_uniform_block(w, 0, 0, -1)
           [] m = "bind_to_storage_buffer" -> Buffer_bind_to_storage_buffer(w, 0, 0, -1)
           [] m = "orphan" -> Buffer_orphan(w, -1)
    ELSE CASE m = "read" -> TextureArray_read(w, 1)
           [] m = "read_into" -> TextureArray_read_into(w, HostMemory, 1, 0)
           [] m = "write" -> TextureArray_write(w, Bytes(<<>>), NoneArg, 1)
           [] m = "build_mipmaps" -> TextureArray_build_mipmaps(w, 0, DefaultMaxLevel)
           [] m = "use" -> TextureArray_use(w, 0)
           [] m = "bind_to_image" -> TextureArray_bind_to_image(w, 0, TRUE, TRUE, 0, 0)

\* ------------------------------------------------------------------ state
Init ==
    /\ wst = [w \in Wrappers |-> "free"]
    /\ wkind = [w \in Wrappers |-> "Buffer"]
    /\ wmglo = [w \in Wrappers |-> Absent]
    /\ wctx = [w \in Wrappers |-> "absent"]
    /\ wcache = [w \in Wrappers |-> NoSlots]
    /\ htype = [h \in Handles |-> "free"]
    /\ bufdata = [h \in Handles |-> <<>>]
    /\ host = ZeroHost
    /\ gc_mode \in GcModes
    /\ objects = <<>>
    /\ released = {}
    /\ releaseCalls = [h \in Handles |-> 0]
    /\ wmode = [w \in Wrappers |-> "none"]
    /\ drv = <<>>
    /\ last = [op |-> "init", err |-> "none", ret |-> <<>>]

\* Memory mem, which is the destination dst, after the stores into dst.
RECURSIVE StoresOn(_, _, _)
StoresOn(mem, dst, stores) ==
    IF stores = <<>> THEN mem
    ELSE StoresOn(IF Head(stores).dst = dst
                  THEN Overlay(mem, Head(stores).off, Head(stores).d)
                  ELSE mem,
                  dst, Tail(stores))

\* The storage mem of buffer object h after the allocations in realloc.
Realloc(mem, h, realloc) ==
    IF realloc # <<>> /\ realloc[1].h = h
    THEN [i \in 1..realloc[1].size |-> Undef]
    ELSE mem

\* The effect of an outcome record on the driver, the queue and the memory;
\* mem is the content of the bytearray the call was handed.
Apply(e, mem) ==
    /\ htype' = [h \in Handles |-> IF h \in e.rel THEN "InvalidObject" ELSE htype[h]]
    /\ releaseCalls' = [h \in Handles |->
                          IF h \in e.rel THEN releaseCalls[h] + 1 ELSE releaseCalls[h]]
    /\ objects' = objects \o e.app
    /\ bufdata' = [h \in Handles |->
                     StoresOn(Realloc(bufdata[h], h, e.realloc),
                              [t |-> "mglo", h |-> h], e.stores)]
    /\ host' = StoresOn(mem, [t |-> "host"], e.stores)
    /\ drv' = e.calls

\* cls.__new__(cls): the first step of every construction; no slot is set yet.
\* Wrappers are numbered in the order they are allocated.
New(w, k) ==
    /\ wst[w] = "free"
    /\ \A v \in Wrappers : v < w => wst[v] # "free"
    /\ wst' = [wst EXCEPT ![w] = "partial"]
    /\ wkind' = [wkind EXCEPT ![w] = k]
    /\ drv' = <<>>
    /\ last' = [op |-> "__new__", err |-> "none", ret |-> <<>>]
    /\ UNCHANGED <<wmglo, wctx, wcache, htype, bufdata, host, gc_mode, objects,
                   released, releaseCalls, wmode>>

\* __init__ without its raise: the caller gets the object, slots None
DirectInit_returns(w) ==
    /\ wst[w] = "partial"
    /\ wmglo[w] = Absent /\ wctx[w] = "absent"
    /\ wmglo' = [wmglo EXCEPT ![w] = None]
    /\ wctx' = [wctx EXCEPT ![w] = "None"]
    /\ wcache' = [wcache EXCEPT ![w] = InitSlots(wkind[w])]
    /\ wst' = [wst EXCEPT ![w] = "live"]
    /\ drv' = <<>>
    /\ last' = [op |-> "__init__", err |-> "none", ret |-> <<>>]
    /\ UNCHANGED <<wkind, htype, bufdata, host, gc_mode, objects, released,
                   releaseCalls, wmode>>

\* Buffer() / TextureArray(): __init__ sets every slot to None and raises.
\* Nothing holds the half-built wrapper; it is only torn down.
DirectInit(w) ==
    /\ wst[w] = "partial"
    /\ wmglo[w] = Absent /\ wctx[w] = "absent"
    /\ wmglo' = [wmglo EXCEPT ![w] = None]
    /\ wctx' = [wctx EXCEPT ![w] = "None"]
    /\ wcache' = [wcache EXCEPT ![w] = InitSlots(wkind[w])]
    /\ drv' = <<>>
    /\ last' = [op |-> "__init__", err |-> "TypeError", ret |-> <<>>]
    /\ UNCHANGED <<wst, wkind, htype, bufdata, host, gc_mode, objects, released,
                   releaseCalls, wmode>>

\* The Context factory: it fills the slots of a new wrapper with a driver
\* handle (a fresh one with reserved, unwritten storage, or one another
\* wrapper of the same class holds) and with itself.  The driver numbers its
\* objects in the order it creates them.
Adopt(w, h) ==
    /\ wst[w] = "partial"
    /\ wmglo[w] = Absent /\ wctx[w] = "absent"
    /\ htype[h] \in {"free", wkind[w]}
    /\ htype[h] = "free" => \A g \in Handles : g < h => htype[g] # "free"
    /\ htype' = [htype EXCEPT ![h] = wkind[w]]
    /\ bufdata' = IF htype[h] = "free" /\ wkind[w] = "Buffer"
                  THEN [bufdata EXCEPT ![h] = [i \in 1..BufSize |-> Undef]]
                  ELSE bufdata
    /\ wmglo' = [wmglo EXCEPT ![w] = h]
    /\ wctx' = [wctx EXCEPT ![w] = "ctx"]
    /\ wcache' = [wcache EXCEPT ![w] = CreatedSlots(wkind[w])]
    /\ wst' = [wst EXCEPT ![w] = "live"]
    /\ drv' = <<>>
    /\ last' = [op |-> "create", err |-> "none", ret |-> <<>>]
    /\ UNCHANGED <<wkind, host, gc_mode, objects, released, releaseCalls,
                   wmode>>

\* ctx.gc_mode = m
SetGcMode(m) ==
    /\ gc_mode # m
    /\ gc_mode' = m
    /\ drv' = <<>>
    /\ last' = [op |-> "gc_mode", err |-> "none", ret |-> <<>>]
    /\ UNCHANGED <<wst, wkind, wmglo, wctx, wcache, htype, bufdata, host, objects,
                   released, releaseCalls, wmode>>

\* w.release(), called by the application on a wrapper it holds
Release(w) ==
    /\ wst[w] = "live"
    /\ \E e \in {Release_(w)} :
          /\ Apply(e, host)
          /\ last' = [op |-> "release", err |-> e.err, ret |-> e.ret]
    /\ released' = released \cup {w}
    /\ UNCHANGED <<wst, wkind, wmglo, wctx, wcache, gc_mode, wmode>>

\* w.__del__(), run by the interpreter once the wrapper is unreachable; the
\* wrapper's memory is reclaimed afterwards.
Del(w) ==
    /\ wst[w] \in {"partial", "live"}
    /\ \E e \in {Del_(w)} :
          /\ Apply(e, host)
          /\ last' = [op |-> "__del__", err |-> e.err, ret |-> e.ret]
    /\ wst' = [wst EXCEPT ![w] = "dead"]
    /\ wkind' = [wkind EXCEPT ![w] = "Buffer"]
    /\ wmglo' = [wmglo EXCEPT ![w] = Absent]
    /\ wctx' = [wctx EXCEPT ![w] = "absent"]
    /\ wcache' = [wcache EXCEPT ![w] = NoSlots]
    /\ released' = released \ {w}
    /\ UNCHANGED <<gc_mode, wmode>>

\* w.m(...): one of the data-moving or binding methods on a wrapper the
\* application holds
Use(w, m) ==
    /\ wst[w] = "live"
    /\ m \in Methods(wkind[w])
    /\ \E e \in {DefaultCall(w, m)} :
          /\ Apply(e, host)
          /\ last' = [op |-> m, err |-> e.err, ret |-> e.ret]
    /\ UNCHANGED <<wst, wkind, wmglo, wctx, wcache, gc_mode, released,
                   wmode>>

Next ==
    \/ \E w \in Wrappers, k \in Kinds : New(w, k)
    \/ \E w \in Wrappers : DirectInit(w)
    \/ \E w \in Wrappers, h \in Handles : Adopt(w, h)
    \/ \E m \in GcModes : SetGcMode(m)
    \/ \E w \in Wrappers : Release(w)
    \/ \E w \in Wrappers : Del(w)

Spec == Init /\ [][Next]_vars

\* ------------------------------------------------- using the wrappers
\* Context.buffer(...) / Context.texture_array(...) as the application sees
\* it: the factory's __new__ and the filling of the slots in one step.
Wrap(w, k, h) ==
    /\ wst[w] = "free"
    /\ \A v \in Wrappers : v < w => wst[v] # "free"
    /\ htype[h] \in {"free", k}
    /\ htype[h] = "free" => \A g \in Handles : g < h => htype[g] # "free"
    /\ htype' = [htype EXCEPT ![h] = k]
    /\ bufdata' = IF htype[h] = "free" /\ k = "Buffer"
                  THEN [bufdata EXCEPT ![h] = [i \in 1..BufSize |-> Undef]]
                  ELSE bufdata
    /\ wkind' = [wkind EXCEPT ![w] = k]
    /\ wmglo' = [wmglo EXCEPT ![w] = h]
    /\ wctx' = [wctx EXCEPT ![w] = "ctx"]
    /\ wcache' = [wcache EXCEPT ![w] = CreatedSlots(k)]
    /\ wst' = [wst EXCEPT ![w] = "live"]
    /\ drv' = <<>>
    /\ last' = [op |-> "create", err |-> "none", ret |-> <<>>]
    /\ UNCHANGED <<host, gc_mode, objects, released, releaseCalls>>

Create(w, k, h) == Wrap(w, k, h) /\ UNCHANGED wmode

\* The application creates wrappers, calls their methods, releases them and
\* drops them, under any gc_mode.
NextUse ==
    \/ \E w \in Wrappers, k \in Kinds, h \in Handles : Create(w, k, h)
    \/ \E m \in GcModes : SetGcMode(m)
    \/ \E w \in Wrappers : Release(w)
    \/ \E w \in Wrappers : Del(w)
    \/ \E w \in Wrappers, m \in BufferMethods \cup TextureArrayMethods : Use(w, m)

SpecUse == Init /\ [][NextUse]_vars

\* ------------------------------------------------- teardown and gc_mode
\* Create, with the gc_mode in force noted for the wrapper.
CreateNoting(w, k, h) ==
    /\ Wrap(w, k, h)
    /\ wmode' = [wmode EXCEPT ![w] = gc_mode]

\* The application creates wrappers, changes the Context's gc_mode,
\* releases wrappers and drops them.
NextGc ==
    \/ \E w \in Wrappers, k \in Kinds, h \in Handles : CreateNoting(w, k, h)
    \/ \E m \in GcModes : SetGcMode(m)
    \/ \E w \in Wrappers : Release(w)
    \/ \E w \in Wrappers : Del(w)

SpecGc == Init /\ [][NextGc]_vars

\* ------------------------------------------------- reading buffer bytes
\* Two Buffers the Context created, the first with any content and the
\* second zero-filled, before the application's one read call.
InitData ==
    /\ wst = [w \in Wrappers |-> IF w <= 2 THEN "live" ELSE "free"]
    /\ wkind = [w \in Wrappers |-> "Buffer"]
    /\ wmglo = [w \in Wrappers |-> IF w <= 2 THEN w ELSE Absent]
    /\ wctx = [w \in Wrappers |-> IF w <= 2 THEN "ctx" ELSE "absent"]
    /\ wcache = [w \in Wrappers |-> IF w <= 2 THEN CreatedSlots("Buffer") ELSE NoSlots]
    /\ htype = [h \in Handles |-> IF h <= 2 THEN "Buffer" ELSE "free"]
    /\ \E content \in [1..BufSize -> Byte] :
          bufdata = [h \in Handles |->
                       IF h = 1 THEN content
                       ELSE IF h = 2 THEN [i \in 1..BufSize |-> 0]
                       ELSE <<>>]
    /\ host = ZeroHost
    /\ gc_mode = "manual"
    /\ objects = <<>>
    /\ released = {}
    /\ releaseCalls = [h \in Handles |-> 0]
    /\ wmode = [w \in Wrappers |-> "none"]
    /\ drv = <<>>
    /\ last = [op |-> "init", err |-> "none", ret |-> <<>>, args |-> <<>>]

LiveBuffers == {w \in Wrappers : wst[w] = "live" /\ wkind[w] = "Buffer"}

\* What the application may pass as the destination of a read.
Targets == {HostMemory} \cup {WrapperArg(v) : v \in LiveBuffers}

\* The application has made no call yet.  The reads leave the buffers as
\* they are, so one call per behaviour covers every sequence of them.
Fresh == last.op = "init"

\* The calls that change a buffer, and the point at which the application
\* looks at one: before any call or right after a change that succeeded.
Modifiers == {"write", "write_chunks", "orphan", "release"}
Observable == Fresh \/ (last.op \in Modifiers /\ last.err = "none")

\* One call with outcome e; a destination in host memory is a new
\* bytearray(HostSize).
DataCall(op, args, e) ==
    /\ Apply(e, ZeroHost)
    /\ last' = [op |-> op, err |-> e.err, ret |-> e.ret, args |-> args]
    /\ UNCHANGED <<wst, wkind, wmglo, wctx, wcache, gc_mode, released,
                   wmode>>

Read(w, size, offset) ==
    /\ Observable
    /\ \E e \in {Buffer_read(w, size, offset)} :
          DataCall("read", <<w, size, offset>>, e)

ReadInto(w, target, size, offset, wo) ==
    /\ Fresh
    /\ \E e \in {Buffer_read_into(w, target, size, offset, wo)} :
          DataCall("read_into", <<w, target, size, offset, wo>>, e)

ReadChunks(w, chunk_size, start, step, count) ==
    /\ Observable
    /\ \E e \in {Buffer_read_chunks(w, chunk_size, start, step, count)} :
          DataCall("read_chunks", <<w, chunk_size, start, step, count>>, e)

ReadChunksInto(w, chunk_size, start, step, count, wo) ==
    /\ Fresh
    /\ \E e \in {Buffer_read_chunks_into(w, HostMemory, chunk_size, start, step,
                                          count, wo)} :
          DataCall("read_chunks_into", <<w, chunk_size, start, step, count, wo>>, e)

NextData ==
    \/ /\ Fresh
       /\ \E w \in LiveBuffers, size \in -1..BufSize, offset \in 0..BufSize :
             Read(w, size, offset)
    \/ /\ Fresh
       /\ \E w \in LiveBuffers, target \in Targets, size \in -1..BufSize,
             offset \in 0..BufSize, wo \in 0..HostSize :
             ReadInto(w, target, size, offset, wo)
    \/ /\ Fresh
       /\ \E w \in LiveBuffers, chunk_size \in 0..MaxChunk, start \in 0..BufSize,
             step \in 0..MaxChunk, count \in 0..MaxChunk :
             ReadChunks(w, chunk_size, start, step, count)
    \/ /\ Fresh
       /\ \E w \in LiveBuffers, chunk_size \in 0..MaxChunk, start \in 0..BufSize,
             step \in 0..MaxChunk, count \in 0..MaxChunk, wo \in 0..HostSize :
             ReadChunksInto(w, chunk_size, start, step, count, wo)

SpecData == InitData /\ [][NextData]_vars

\* ------------------------------------------------- changing buffer bytes
\* One Buffer the Context created with BufSize bytes reserved, on which the
\* application makes one changing call and then looks at the result.
InitBuf ==
    /\ wst = [w \in Wrappers |-> IF w = 1 THEN "live" ELSE "free"]
    /\ wkind = [w \in Wrappers |-> "Buffer"]
    /\ wmglo = [w \in Wrappers |-> IF w = 1 THEN 1 ELSE Absent]
    /\ wctx = [w \in Wrappers |-> IF w = 1 THEN "ctx" ELSE "absent"]
    /\ wcache = [w \in Wrappers |-> IF w = 1 THEN CreatedSlots("Buffer") ELSE NoSlots]
    /\ htype = [h \in Handles |-> IF h = 1 THEN "Buffer" ELSE "free"]
    /\ bufdata = [h \in Handles |->
                    IF h = 1 THEN [i \in 1..BufSize |-> Undef] ELSE <<>>]
    /\ host = ZeroHost
    /\ gc_mode = "manual"
    /\ objects = <<>>
    /\ released = {}
    /\ releaseCalls = [h \in Handles |-> 0]
    /\ wmode = [w \in Wrappers |-> "none"]
    /\ drv = <<>>
    /\ last = [op |-> "init", err |-> "none", ret |-> <<>>, args |-> <<>>]

\* The byte strings of at most BufSize bytes, and the attribute lists.
ByteSeqs == UNION {[1..n -> Byte] : n \in 0..BufSize}
AttribSeqs == UNION {[1..n -> Attribs] : n \in 0..MaxAttribs}

Write(w, data, offset) ==
    /\ Fresh
    /\ \E e \in {Buffer_write(w, Bytes(data), offset)} :
          DataCall("write", <<w, data, offset>>, e)

WriteChunks(w, data, start, step, count) ==
    /\ Fresh
    /\ \E e \in {Buffer_write_chunks(w, Bytes(data), start, step, count)} :
          DataCall("write_chunks", <<w, data, start, step, count>>, e)

Orphan(w, size) ==
    /\ Fresh
    /\ \E e \in {Buffer_orphan(w, size)} : DataCall("orphan", <<w, size>>, e)

Size(w) ==
    /\ Observable
    /\ \E e \in {Buffer_size(w)} : DataCall("size", <<w>>, e)

Bind(w, attribs, layout) ==
    /\ Observable
    /\ \E e \in {Buffer_bind(w, attribs, layout)} :
          DataCall("bind", <<w, attribs, layout>>, e)

Assign(w, index) ==
    /\ Observable
    /\ \E e \in {Buffer_assign(w, index)} : DataCall("assign", <<w, index>>, e)

NextBuf ==
    \/ /\ Fresh
       /\ \E w \in LiveBuffers, data \in ByteSeqs, offset \in 0..BufSize :
             Write(w, data, offset)
    \/ /\ Fresh
       /\ \E w \in LiveBuffers, data \in ByteSeqs, start \in 0..MaxChunk,
             step \in 0..MaxChunk, count \in 0..MaxChunk :
             WriteChunks(w, data, start, step, count)
    \/ /\ Fresh
       /\ \E w \in LiveBuffers, size \in -1..(BufSize + 1) : Orphan(w, size)
    \/ /\ Fresh
       /\ \E w \in LiveBuffers : Release(w)
    \/ /\ Observable
       /\ \E w \in LiveBuffers, size \in -1..BufSize, offset \in 0..BufSize :
             Read(w, size, offset)
    \/ /\ Observable
       /\ \E w \in LiveBuffers, chunk_size \in 0..MaxChunk, start \in 0..MaxChunk,
             step \in 0..MaxChunk, count \in 0..MaxChunk :
             ReadChunks(w, chunk_size, start, step, count)
    \/ /\ Observable
       /\ \E w \in LiveBuffers : Size(w)
    \/ /\ Observable
       /\ \E w \in LiveBuffers, attribs \in AttribSeqs, layout \in Layouts :
             Bind(w, attribs, layout)
    \/ /\ Observable
       /\ \E w \in LiveBuffers, index \in 0..1 : Assign(w, index)

SpecBuf == InitBuf /\ [][NextBuf]_vars

\* ------------------------------------------------- using a texture array
\* The geometries a texture array is created with here.
Geometries ==
    {TexGeometry, [size |-> <<1, 2, 2>>, components |-> 2, dtype |-> "f4"]}

\* A TextureArray and a Buffer the Context created, before the application
\* calls one method of the texture, possibly after releasing it.
InitTex ==
    /\ wst = [w \in Wrappers |-> IF w <= 2 THEN "live" ELSE "free"]
    /\ wkind = [w \in Wrappers |-> IF w = 1 THEN "TextureArray" ELSE "Buffer"]
    /\ wmglo = [w \in Wrappers |-> IF w <= 2 THEN w ELSE Absent]
    /\ wctx = [w \in Wrappers |-> IF w <= 2 THEN "ctx" ELSE "absent"]
    /\ \E g \in Geometries :
          wcache = [w \in Wrappers |->
                      IF w = 1 THEN g
                      ELSE IF w = 2 THEN CreatedSlots("Buffer") ELSE NoSlots]
    /\ htype = [h \in Handles |->
                  IF h = 1 THEN "TextureArray" ELSE IF h = 2 THEN "Buffer" ELSE "free"]
    /\ bufdata = [h \in Handles |->
                    IF h = 2 THEN [i \in 1..BufSize |-> Undef] ELSE <<>>]
    /\ host = ZeroHost
    /\ gc_mode = "manual"
    /\ objects = <<>>
    /\ released = {}
    /\ releaseCalls = [h \in Handles |-> 0]
    /\ wmode = [w \in Wrappers |-> "none"]
    /\ drv = <<>>
    /\ last = [op |-> "init", err |-> "none", ret |-> <<>>, args |-> <<>>]

LiveTextures == {w \in Wrappers : wst[w] = "live" /\ wkind[w] = "TextureArray"}

\* The application calls a method before any other call or right after
\* release().
TexReady == Fresh \/ last.op = "release"

\* The viewports None, (width, height, layers) and
\* (x, y, layer, width, height, layers)
Viewport(i) ==
    CASE i = 1 -> NoneArg
      [] i = 2 -> Tuple(<<1, 1, 1>>)
      [] i = 3 -> Tuple(<<0, 1, 0, 1, 1, 1>>)

\* The pixel data and the destinations the application passes.
PixelData == {Bytes(<<>>), Bytes(<<1>>)} \cup {WrapperArg(v) : v \in LiveBuffers}
Alignments == {1, 4}

\* The sampling-state properties and two values for each.
Samplers == {"repeat_x", "repeat_y", "filter", "swizzle", "anisotropy"}

SamplerValue(name, i) ==
    CASE name \in {"repeat_x", "repeat_y"} -> (i = 1)
      [] name = "filter" -> <<i, i>>
      [] name = "swizzle" -> IF i = 1 THEN "RGBA" ELSE "ABGR"
      [] name = "anisotropy" -> i

TexRead(w, alignment) ==
    /\ TexReady
    /\ \E e \in {TextureArray_read(w, alignment)} : DataCall("read", <<w, alignment>>, e)

TexReadInto(w, buffer, alignment, wo) ==
    /\ TexReady
    /\ \E e \in {TextureArray_read_into(w, buffer, alignment, wo)} :
          DataCall("read_into", <<w, buffer, alignment, wo>>, e)

TexWrite(w, data, viewport, alignment) ==
    /\ TexReady
    /\ \E e \in {TextureArray_write(w, data, viewport, alignment)} :
          DataCall("write", <<w, data, viewport, alignment>>, e)

TexBuildMipmaps(w, base, max_level) ==
    /\ TexReady
    /\ \E e \in {TextureArray_build_mipmaps(w, base, max_level)} :
          DataCall("build_mipmaps", <<w, base, max_level>>, e)

TexUse(w, location) ==
    /\ TexReady
    /\ \E e \in {TextureArray_use(w, location)} : DataCall("use", <<w, location>>, e)

TexBindToImage(w, unit, read, write, level, format) ==
    /\ TexReady
    /\ \E e \in {TextureArray_bind_to_image(w, unit, read, write, level, format)} :
          DataCall("bind_to_image", <<w, unit, read, write, level, format>>, e)

TexSet(w, name, value) ==
    /\ TexReady
    /\ \E e \in {TextureArray_set(w, name, value)} :
          DataCall("set", <<w, name, value>>, e)

NextTex ==
    \/ /\ Fresh
       /\ \E w \in LiveTextures : Release(w)
    \/ /\ TexReady
       /\ \E w \in LiveTextures, alignment \in Alignments : TexRead(w, alignment)
    \/ /\ TexReady
       /\ \E w \in LiveTextures, buffer \in Targets, alignment \in Alignments,
             wo \in 0..1 :
             TexReadInto(w, buffer, alignment, wo)
    \/ /\ TexReady
       /\ \E w \in LiveTextures, data \in PixelData, i \in 1..3,
             alignment \in Alignments :
             TexWrite(w, data, Viewport(i), alignment)
    \/ /\ TexReady
       /\ \E w \in LiveTextures, base \in 0..1, max_level \in {1, DefaultMaxLevel} :
             TexBuildMipmaps(w, base, max_level)
    \/ /\ TexReady
       /\ \E w \in LiveTextures, location \in 0..1 : TexUse(w, location)
    \/ /\ TexReady
       /\ \E w \in LiveTextures, unit \in 0..1, read \in BOOLEAN, write \in BOOLEAN :
             TexBindToImage(w, unit, read, write, 0, 0)
    \/ /\ TexReady
       /\ \E w \in LiveTextures, name \in Samplers, i \in 1..2 :
             TexSet(w, name, SamplerValue(name, i))

SpecTex == InitTex /\ [][NextTex]_vars

\* ================================================================ claims
ReleaseCall(h) == [h |-> h, method |-> "release", args |-> <<>>]

\* C1: the driver's release runs at most once on every handle, and a
\* release() that finds the handle already invalid (called directly, or by
\* a teardown in "auto" mode) makes no driver call and raises nothing.
C1_ReleaseAtMostOnce ==
    [][/\ \A h \in Handles : releaseCalls'[h] <= 1
       /\ \A w \in Wrappers :
            (IsInvalidObject(wmglo[w])
               /\ (Release(w) \/ (gc_mode = "auto" /\ Del(w))))
            => (drv' = <<>> /\ last'.err = "none" /\ releaseCalls' = releaseCalls)]_vars

\* A release() that returned without a driver call, on a handle the driver
\* destroyed once before.
C1_Witness ==
    /\ last.op = "release" /\ last.err = "none" /\ drv = <<>>
    /\ \E w \in Wrappers :
          /\ wst[w] = "live" /\ IsInvalidObject(wmglo[w])
          /\ releaseCalls[wmglo[w]] = 1

\* C2: once release() was called on a wrapper, each of its data-moving and
\* binding methods raises, and release() itself still returns.
C2_UseAfterReleaseFails ==
    [][\A w \in released :
          /\ (last'.op \in Methods(wkind[w]) /\ Use(w, last'.op))
                => last'.err # "none"
          /\ (last'.op = "release" /\ Release(w)) => last'.err = "none"]_vars

\* A method call that raised while every wrapper in use had been released.
C2_Witness ==
    /\ last.op \in BufferMethods \cup TextureArrayMethods
    /\ last.err = "AttributeError"
    /\ \E w \in Wrappers : wst[w] = "live"
    /\ \A w \in Wrappers : wst[w] = "live" => w \in released

\* C3: in "context_gc" mode the teardown of a wrapper that has a Context
\* appends the wrapper's handle, once, to ctx.objects, calls nothing on the
\* driver and leaves every handle as valid as it was.
C3_ContextGcQueues ==
    [][\A w \in Wrappers :
          (wctx[w] = "ctx" /\ gc_mode = "context_gc" /\ Del(w))
          => /\ objects' = Append(objects, wmglo[w])
             /\ Len(objects') = Len(objects) + 1
             /\ drv' = <<>>
             /\ htype' = htype /\ releaseCalls' = releaseCalls
             /\ last'.err = "none"]_vars

\* The first wrapper was created and torn down in "context_gc" mode: its
\* handle is queued and still valid.
C3_Witness ==
    /\ last.op = "__del__" /\ last.err = "none" /\ gc_mode = "context_gc"
    /\ wst[1] = "dead" /\ \A w \in Wrappers \ {1} : wst[w] = "free"
    /\ objects = <<1>> /\ htype[1] \in Kinds /\ releaseCalls[1] = 0

\* C4: in "auto" mode the teardown of a wrapper that has a Context leaves
\* the handle invalid, calls the driver's release exactly when the handle
\* was still valid, and leaves ctx.objects alone.
C4_AutoReleases ==
    [][\A w \in Wrappers :
          (wctx[w] = "ctx" /\ gc_mode = "auto" /\ Del(w))
          => /\ htype'[wmglo[w]] = "InvalidObject"
             /\ (drv' = <<ReleaseCall(wmglo[w])>>) <=> (htype[wmglo[w]] \in Kinds)
             /\ (drv' = <<>>) <=> (htype[wmglo[w]] = "InvalidObject")
             /\ releaseCalls'[wmglo[w]] =
                   releaseCalls[wmglo[w]] + (IF htype[wmglo[w]] \in Kinds THEN 1 ELSE 0)
             /\ objects' = objects
             /\ last'.err = "none"]_vars

\* The first wrapper was created and torn down in "auto" mode, and the
\* teardown released its handle.
C4_Witness ==
    /\ last.op = "__del__" /\ last.err = "none" /\ gc_mode = "auto"
    /\ wst[1] = "dead" /\ \A w \in Wrappers \ {1} : wst[w] = "free"
    /\ drv = <<ReleaseCall(1)>> /\ htype[1] = "InvalidObject"
    /\ releaseCalls[1] = 1 /\ objects = <<>>

\* C5: in any other mode the teardown of a wrapper that has a Context does
\* nothing: no driver call, handles and ctx.objects unchanged.
C5_OtherModeNoAction ==
    [][\A w \in Wrappers :
          (wctx[w] = "ctx" /\ gc_mode \notin {"auto", "context_gc"} /\ Del(w))
          => /\ drv' = <<>>
             /\ htype' = htype /\ releaseCalls' = releaseCalls
             /\ objects' = objects
             /\ last'.err = "none"]_vars

\* The first wrapper was created and torn down in "manual" mode: its handle
\* is still valid and nothing is queued.
C5_Witness ==
    /\ last.op = "__del__" /\ last.err = "none" /\ gc_mode = "manual"
    /\ wst[1] = "dead" /\ \A w \in Wrappers \ {1} : wst[w] = "free"
    /\ htype[1] \in Kinds /\ releaseCalls[1] = 0 /\ objects = <<>>

\* C6: the teardown of a wrapper to which no Context was assigned (ctx slot
\* unset, or None after a failed direct construction) raises nothing, calls
\* nothing on the driver and queues nothing.
C6_PartialTeardownNoOp ==
    [][\A w \in Wrappers :
          (wst[w] = "partial" /\ wctx[w] \in {"absent", "None"} /\ Del(w))
          => /\ last'.err = "none"
             /\ drv' = <<>>
             /\ objects' = objects]_vars

\* C7: release() on a wrapper whose handle is valid calls the driver's
\* release on that handle, and afterwards the wrapper's mglo is an
\* InvalidObject.
C7_ReleaseInvalidates ==
    [][\A w \in Wrappers :
          (wmglo[w] \in Handles /\ htype[wmglo[w]] \in Kinds /\ Release(w))
          => /\ drv' = <<ReleaseCall(wmglo[w])>>
             /\ releaseCalls'[wmglo[w]] = releaseCalls[wmglo[w]] + 1
             /\ wmglo'[w] = wmglo[w]
             /\ htype'[wmglo'[w]] = "InvalidObject"
             /\ last'.err = "none"]_vars

\* A release() that reached the driver and left a wrapper in use with an
\* InvalidObject.
C7_Witness ==
    /\ last.op = "release" /\ last.err = "none" /\ Len(drv) = 1
    /\ \E w \in released :
          /\ wst[w] = "live" /\ IsInvalidObject(wmglo[w])
          /\ drv = <<ReleaseCall(wmglo[w])>>

\* C8: two wrappers in use compare equal exactly when they are of one class
\* and hold the same driver object; a Buffer never equals a TextureArray and
\* wrappers of one class around different handles are never equal.
C8_EqIsClassAndHandle ==
    \A a, b \in Wrappers :
       (wst[a] = "live" /\ wst[b] = "live")
       => /\ WrapperEq(a, b) <=> (wkind[a] = wkind[b] /\ wmglo[a] = wmglo[b])
          /\ wkind[a] # wkind[b] => ~WrapperEq(a, b)
          /\ wmglo[a] # wmglo[b] => ~WrapperEq(a, b)
          /\ WrapperEq(a, b) <=> WrapperEq(b, a)

\* Two distinct wrappers of one class around the same handle, equal.
C8_Witness ==
    /\ wst[1] = "live" /\ wst[2] = "live"
    /\ wkind[1] = wkind[2] /\ wmglo[1] = wmglo[2]
    /\ WrapperEq(1, 2)

\* C9: read_chunks_into stores in the destination, from write_offset on,
\* exactly the bytes read_chunks returns for the same chunk_size, start,
\* step and count: chunk i, taken at start + i*step, lands at
\* write_offset + i*chunk_size.
C9_ChunksIntoStoresReadChunks ==
    last.op = "read_chunks_into" =>
       LET w == last.args[1]
           chunk_size == last.args[2]
           start == last.args[3]
           step == last.args[4]
           count == last.args[5]
           wo == last.args[6]
           rc == Buffer_read_chunks(w, chunk_size, start, step, count)
       IN (rc.err = "none" /\ wo + Len(rc.ret) <= HostSize)
          => /\ last.err = "none"
             /\ Slice(host, wo, Len(rc.ret)) = rc.ret
             /\ \A i \in 0..(count - 1), p \in 1..chunk_size :
                   host[wo + i * chunk_size + p] = bufdata[wmglo[w]][start + i * step + p]

\* C10 as stated: read_into with a Buffer wrapper as target delivers the
\* bytes into that Buffer's storage at write_offset, through the target's
\* driver handle, as it does into a host bytearray.
C10_ReadIntoBufferTarget ==
    last.op = "read_into" =>
       LET w == last.args[1]
           target == last.args[2]
           offset == last.args[4]
           wo == last.args[5]
           size == SizeArg(wmglo[w], last.args[3], offset)
           d == Slice(bufdata[wmglo[w]], offset, size)
       IN (/\ target.t = "wrapper" /\ target.w # w
           /\ RangeOk(wmglo[w], size, offset)
           /\ wo + size <= Len(bufdata[wmglo[target.w]]))
          => /\ last.err = "none"
             /\ drv[1].args[1].t = "mglo" /\ drv[1].args[1].h = wmglo[target.w]
             /\ Slice(bufdata[wmglo[target.w]], wo, size) = d

\* C10 amended: read_into hands its target to the driver as it is.  A host
\* bytearray receives the bytes at write_offset; a Buffer wrapper is passed
\* as the wrapper, never as its driver handle, the call raises and no
\* buffer's storage changes.
C10_ReadIntoForwardsTarget ==
    [][(Fresh /\ last'.op = "read_into") =>
          LET w == last'.args[1]
              target == last'.args[2]
              offset == last'.args[4]
              wo == last'.args[5]
              size == SizeArg(wmglo[w], last'.args[3], offset)
          IN /\ Len(drv') = 1
             /\ drv'[1].h = wmglo[w] /\ drv'[1].method = "read_into"
             /\ drv'[1].args[1].t = target.t
             /\ target.t = "wrapper"
                  => /\ drv'[1].args[1].w = target.w
                     /\ last'.err # "none"
                     /\ bufdata' = bufdata /\ host' = ZeroHost
             /\ (target.t = "host" /\ RangeOk(wmglo[w], size, offset)
                    /\ wo + size <= HostSize)
                  => /\ last'.err = "none"
                     /\ bufdata' = bufdata
                     /\ host' = Overlay(ZeroHost, wo,
                                        Slice(bufdata[wmglo[w]], offset, size))]_vars

\* A read_into of at least one byte, in range, whose target was the other
\* Buffer wrapper: it raised.
C10_Witness ==
    /\ last.op = "read_into" /\ last.err = "TypeError"
    /\ last.args[2].t = "wrapper" /\ last.args[2].w # last.args[1]
    /\ last.args[3] > 0 /\ last.args[3] + last.args[4] <= BufSize
    /\ last.args[5] + last.args[3] <= BufSize
    /\ Len(drv) = 1 /\ drv[1].args[1].t = "wrapper"

\* C11: on a valid Buffer a write of data at offset that fits succeeds, and
\* the read of len(data) bytes at the same offset that follows it returns
\* exactly data; a read with size = -1 returns the bytes from offset to the
\* end of the buffer.
C11_WriteReadRoundTrip ==
    [][/\ (Fresh /\ last'.op = "write"
             /\ last'.args[3] + Len(last'.args[2]) <= Len(bufdata[wmglo[last'.args[1]]]))
          => last'.err = "none"
       /\ (last.op = "write" /\ last.err = "none" /\ last'.op = "read"
             /\ last'.args[1] = last.args[1]
             /\ last'.args[2] = Len(last.args[2])
             /\ last'.args[3] = last.args[3])
          => (last'.err = "none" /\ last'.ret = last.args[2])
       /\ (last'.op = "read" /\ last'.args[2] = -1
             /\ htype[wmglo[last'.args[1]]] = "Buffer"
             /\ last'.args[3] <= Len(bufdata[wmglo[last'.args[1]]]))
          => LET m == bufdata'[wmglo[last'.args[1]]]
             IN /\ last'.err = "none"
                /\ last'.ret = Slice(m, last'.args[3], Len(m) - last'.args[3])]_opvars

\* A read at offset 1 that returned the two bytes a write had put there.
C11_Witness ==
    /\ last.op = "read" /\ last.err = "none"
    /\ last.args[2] = 2 /\ last.args[3] = 1
    /\ last.ret = <<1, 0>>
    /\ bufdata[1] = <<Undef, 1, 0>> \o [i \in 1..(BufSize - 3) |-> Undef]

\* The pieces of a write_chunks call do not overlap.
Disjoint(chunk_size, step, count) == count <= 1 \/ step >= chunk_size

\* C12: on a valid Buffer, write_chunks of data whose length count divides,
\* in pieces that fit and do not overlap, stores piece i at start + i*step,
\* and the read_chunks(len(data)/count, start, step, count) that follows it
\* returns data with its pieces in order.
C12_ChunksRoundTrip ==
    [][/\ (Fresh /\ last'.op = "write_chunks")
          => LET w == last'.args[1]
                 data == last'.args[2]
                 start == last'.args[3]
                 step == last'.args[4]
                 count == last'.args[5]
             IN (/\ count > 0 /\ Len(data) % count = 0
                 /\ Disjoint(Len(data) \div count, step, count)
                 /\ ChunksFit(Len(bufdata[wmglo[w]]), Len(data) \div count, start,
                              step, count))
                => /\ last'.err = "none"
                   /\ \A i \in 0..(count - 1), q \in 1..(Len(data) \div count) :
                         bufdata'[wmglo[w]][start + i * step + q]
                            = data[i * (Len(data) \div count) + q]
       /\ (last.op = "write_chunks" /\ last.err = "none" /\ last'.op = "read_chunks"
             /\ last'.args[1] = last.args[1]
             /\ last.args[5] > 0
             /\ last'.args[2] = Len(last.args[2]) \div last.args[5]
             /\ last'.args[3] = last.args[3]
             /\ last'.args[4] = last.args[4]
             /\ last'.args[5] = last.args[5]
             /\ Disjoint(last'.args[2], last'.args[4], last'.args[5]))
          => (last'.err = "none" /\ last'.ret = last.args[2])]_opvars

\* A read_chunks that returned the two one-byte pieces a write_chunks had
\* stored at offsets 1 and 3, or at 0 and 2.
C12_Witness ==
    /\ last.op = "read_chunks" /\ last.err = "none"
    /\ last.args[2] = 1 /\ last.args[4] = 2 /\ last.args[5] = 2
    /\ last.ret = <<1, 0>>
    /\ bufdata[1][last.args[3] + 1] = 1 /\ bufdata[1][last.args[3] + 3] = 0

\* C13: bind(*attribs, layout=L) returns a tuple of exactly three elements,
\* the buffer itself, L and the list of the attributes, however many
\* attributes there are, and assign(index) returns the pair of the buffer
\* itself and index.
C13_BindAssignTuples ==
    /\ last.op = "bind"
          => /\ Len(last.ret) = 3
             /\ last.ret[1] = WrapperArg(last.args[1])
             /\ last.ret[2] = last.args[3]
             /\ last.ret[3].t = "tuple"
             /\ last.ret[3].v = last.args[2]
    /\ last.op = "assign"
          => last.ret = <<WrapperArg(last.args[1]), last.args[2]>>

\* C16: orphan(newSize) with newSize >= 0 leaves the buffer with newSize
\* bytes and orphan(-1) leaves its size as it was; the size property that
\* follows reports that allocation, whatever was reserved at creation.
C16_OrphanSetsSize ==
    [][/\ (Fresh /\ last'.op = "orphan" /\ last'.args[2] >= -1)
          => LET h == wmglo[last'.args[1]]
             IN /\ last'.err = "none"
                /\ Len(bufdata'[h]) = IF last'.args[2] = -1 THEN Len(bufdata[h])
                                       ELSE last'.args[2]
       /\ (last'.op = "size" /\ htype[wmglo[last'.args[1]]] = "Buffer")
          => /\ last'.err = "none"
             /\ last'.ret = Len(bufdata[wmglo[last'.args[1]]])
       /\ (last.op = "orphan" /\ last.err = "none" /\ last'.op = "size"
             /\ last'.args[1] = last.args[1])
          => last'.ret = IF last.args[2] = -1 THEN BufSize ELSE last.args[2]]_opvars

\* The size property answered 1 after orphan(1) on a buffer created with
\* BufSize bytes.
C16_Witness ==
    /\ last.op = "size" /\ last.err = "none" /\ last.ret = 1
    /\ wcache[1].size = BufSize /\ BufSize # 1
    /\ Len(bufdata[1]) = 1

\* C18: bind and assign call nothing on the driver and change nothing: the
\* buffers' bytes and sizes, the handles, the wrappers' slots and the
\* Context's queue stay as they are, and they return on a released buffer
\* as well.
C18_BindAssignPure ==
    [][(last'.op \in {"bind", "assign"})
          => /\ last'.err = "none"
             /\ drv' = <<>>
             /\ bufdata' = bufdata /\ htype' = htype
             /\ releaseCalls' = releaseCalls /\ objects' = objects
             /\ wmglo' = wmglo /\ wctx' = wctx /\ wcache' = wcache
             /\ host' = host /\ gc_mode' = gc_mode]_opvars

\* bind with two attributes returned on a buffer release() had invalidated.
C18_Witness ==
    /\ last.op = "bind" /\ last.err = "none"
    /\ Len(last.args[2]) = 2
    /\ IsInvalidObject(wmglo[last.args[1]]) /\ last.args[1] \in released

\* C14: every direct call of the constructor raises, and the object it
\* leaves behind never is a wrapper in use: it has no Context and no driver
\* handle, then or later.
C14_DirectConstructionFails ==
    [][\A w \in Wrappers :
          /\ (last'.op = "__init__" /\ DirectInit(w))
                => /\ last'.err = "TypeError"
                   /\ wst'[w] # "live"
                   /\ wctx'[w] # "ctx" /\ wmglo'[w] \notin Handles
          /\ wctx[w] = "None"
                => /\ wst[w] = "partial" /\ wst'[w] # "live"
                   /\ wctx'[w] # "ctx" /\ wmglo'[w] \notin Handles]_vars

\* TextureArray() raised and left a half-built object with its slots None.
C14_Witness ==
    /\ last.op = "__init__" /\ last.err = "TypeError"
    /\ \E w \in Wrappers :
          /\ wst[w] = "partial" /\ wkind[w] = "TextureArray"
          /\ wctx[w] = "None" /\ wmglo[w] = None
          /\ wcache[w].size = <<None, None, None>>

\* C17: the hash of a wrapper is its own identity: it stays the same over
\* every operation while the wrapper is in use, release included, and two
\* distinct wrappers have different hashes even when they hold the same
\* handle and compare equal.
C17_HashIsIdentity ==
    [][/\ \A a \in Wrappers :
            (wst[a] = "live" /\ wst'[a] = "live") => WrapperHash(a)' = WrapperHash(a)
       /\ \A a, b \in Wrappers :
            (a # b /\ wst'[a] = "live" /\ wst'[b] = "live")
            => WrapperHash(a)' # WrapperHash(b)']_vars

\* Two wrappers in use around one handle, equal, with different hashes,
\* after release() was called on the first.
C17_Witness ==
    /\ wst[1] = "live" /\ wst[2] = "live"
    /\ wmglo[1] = wmglo[2] /\ WrapperEq(1, 2)
    /\ WrapperHash(1) # WrapperHash(2)
    /\ 1 \in released /\ last.op = "release"

\* C20: a handle that a teardown in "context_gc" mode appends to
\* ctx.objects is a valid driver object, not a released one, at that
\* moment.
C20_QueuedHandlesValid ==
    [][\A w \in Wrappers :
          (wctx[w] = "ctx" /\ gc_mode = "context_gc" /\ last'.op = "__del__"
             /\ Del(w))
          => /\ objects' = Append(objects, wmglo[w])
             /\ htype[wmglo[w]] \in Kinds]_vars

\* What a TextureArray reports of its geometry.
Geometry(w) ==
    <<TextureArray_width(w), TextureArray_height(w), TextureArray_layers(w),
      TextureArray_size(w), TextureArray_components(w), TextureArray_dtype(w)>>

\* C15: width, height, layers, size, components and dtype of a
\* TextureArray in use are what they were at creation after every call:
\* write with any viewport, read, read_into, build_mipmaps, use,
\* bind_to_image, the sampling-state setters and release.
C15_GeometryImmutable ==
    [][\A w \in LiveTextures :
          /\ wst'[w] = "live"
          /\ Geometry(w)' = Geometry(w)
          /\ Geometry(w)[4] = <<Geometry(w)[1], Geometry(w)[2], Geometry(w)[3]>>
          /\ \E g \in Geometries :
                Geometry(w)' = <<g.size[1], g.size[2], g.size[3], g.size,
                                 g.components, g.dtype>>]_opvars

\* A write through a six-element viewport on a released texture, which
\* still reports the geometry it was created with.
C15_Witness ==
    /\ last.op = "write"
    /\ last.args[3].t = "tuple" /\ Len(last.args[3].v) = 6
    /\ 1 \in released /\ IsInvalidObject(wmglo[1])
    /\ Geometry(1) = <<1, 2, 2, <<1, 2, 2>>, 2, "f4">>

\* C19: read_into and write of a valid TextureArray make one driver call;
\* a Buffer passed as target or data reaches the driver as that Buffer's
\* driver handle, anything else as it was passed, and alignment,
\* write_offset and viewport are forwarded as given.
C19_TextureUnwrapsBuffer ==
    [][(last'.op \in {"read_into", "write"} /\ htype[wmglo[last'.args[1]]] \in Kinds)
          => LET w == last'.args[1]
                 x == last'.args[2]
             IN /\ last'.err = "none"
                /\ Len(drv') = 1 /\ drv'[1].h = wmglo[w]
                /\ drv'[1].method = last'.op
                /\ drv'[1].args[1].t # "wrapper"
                /\ x.t = "wrapper"
                      => /\ drv'[1].args[1].t = "mglo"
                         /\ drv'[1].args[1].h = wmglo[x.w]
                /\ x.t # "wrapper" => drv'[1].args[1] = x
                /\ drv'[1].args[2] = last'.args[3]
                /\ drv'[1].args[3] = last'.args[4]]_opvars

\* A write whose data was the Buffer wrapper, through a viewport and with
\* alignment 4: the driver got the Buffer's handle.
C19_Witness ==
    /\ last.op = "write" /\ last.err = "none"
    /\ last.args[2] = WrapperArg(2)
    /\ Len(drv) = 1
    /\ drv[1].args[1].t = "mglo" /\ drv[1].args[1].h = wmglo[2]
    /\ drv[1].args[2].t = "tuple" /\ Len(drv[1].args[2].v) = 3
    /\ drv[1].args[3] = 4

\* C21: what the teardown of a wrapper with a Context and a valid handle
\* does follows ctx.gc_mode as it is at the teardown, whatever it was when
\* the wrapper was created: "auto" releases the handle, "context_gc" queues
\* it, any other mode does nothing.
C21_TeardownFollowsCurrentMode ==
    [][\A w \in Wrappers :
          (/\ wctx[w] = "ctx" /\ htype[wmglo[w]] \in Kinds
           /\ last'.op = "__del__" /\ Del(w))
          => /\ last'.err = "none"
             /\ gc_mode = "auto"
                  => /\ drv' = <<ReleaseCall(wmglo[w])>>
                     /\ htype'[wmglo[w]] = "InvalidObject"
                     /\ objects' = objects
             /\ gc_mode = "context_gc"
                  => /\ drv' = <<>> /\ htype' = htype
                     /\ objects' = Append(objects, wmglo[w])
             /\ gc_mode \notin {"auto", "context_gc"}
                  => /\ drv' = <<>> /\ htype' = htype
                     /\ objects' = objects]_vars

\* Two wrappers created in "context_gc" mode, the first torn down in
\* "manual" mode, where nothing happened, and the second in "auto" mode,
\* where its handle was released.
C21_Witness ==
    /\ last.op = "__del__" /\ last.err = "none"
    /\ wst[1] = "dead" /\ wst[2] = "dead"
    /\ wmode[1] = "context_gc" /\ wmode[2] = "context_gc"
    /\ gc_mode = "auto"
    /\ htype[1] \in Kinds /\ htype[2] = "InvalidObject"
    /\ drv = <<ReleaseCall(2)>> /\ objects = <<>>

====
